---- MODULE Spec2Model ----
(***************************************************************************)
(* A model of trainCNN.py: the command line of __main__, the construction  *)
(* of the six layers in buildLayers / LeNetConvPoolLayer, and the training *)
(* loop of evaluate_lenet5 with its validation, best-model tracking,       *)
(* checkpoint file and patience-based early stopping, and the minibatch    *)
(* indices it passes to the compiled functions.                            *)
(*                                                                         *)
(* Floating-point losses are modelled as exact non-negative numbers in     *)
(* fixed units (a root-mean-square error is never negative), numpy.inf as  *)
(* a value of its own.  The gradient that Theano computes is a fixed       *)
(* integer function of the parameter and the minibatch.                    *)
(***************************************************************************)
EXTENDS Integers, Sequences, FiniteSets, TLC

VARIABLES
    pc,                    \* position in evaluate_lenet5
    n_epochs,              \* argument n_epochs
    n_train_batches,       \* number of training minibatches (line 264)
    learning_rate,         \* argument learning_rate
    validation_frequency,  \* line 339
    epoch,
    done_looping,
    minibatch_index,
    iter,
    patience,
    best_validation_loss,
    best_iter,
    test_score,
    this_validation_loss,
    layer,                 \* layer0..layer5: the shared variables W and b
    save_file,             \* contents of result_<nameDataset>.dat, <<>> before it is written
    trained,               \* number of calls of train_model so far
    validated,             \* the validations so far: <<[iter, loss, layer], ...>>
    tested,                \* the test scores measured so far: <<[iter, score], ...>>
    writes,                \* number of times save_file was opened with 'wb'
    reads,                 \* <<function, partition>>: which data each compiled function has read
    rows,                  \* number of rows of each partition (shape[0], lines 256-258)
    n_valid_batches,       \* line 265
    n_test_batches,        \* line 266
    called,                \* <<function, index>>: the calls of compiled functions made by the last step that made any
    mainpc,                \* position in __main__
    argv,                  \* sys.argv[1:], each argument a sequence of characters
    opts,                  \* the (option, value) pairs getopt returned
    default,
    optindex,              \* position of "for opt, arg in opts"
    nameDataset,
    pathDataset,
    output,                \* the lines printed by __main__
    calls,                 \* the calls of evaluate_lenet5 made by __main__
    buildpc,               \* position in buildLayers
    batch_size,
    dim,
    nkerns,
    TT,                    \* the pretrained layers, or None
    passed,                \* W0, b0, ..., W5, b5 of buildLayers, by layer
    flowing,               \* the shape of the tensor the next layer receives
    layers                 \* the layers constructed so far

trainVars == <<pc, n_epochs, n_train_batches, learning_rate, validation_frequency,
               epoch, done_looping, minibatch_index, iter, patience,
               best_validation_loss, best_iter, test_score, this_validation_loss,
               layer, save_file, trained, validated, tested, writes, reads,
               rows, n_valid_batches, n_test_batches, called>>

mainVars == <<mainpc, argv, opts, default, optindex, nameDataset, pathDataset,
              output, calls>>

buildVars == <<buildpc, batch_size, dim, nkerns, TT, passed, flowing, layers>>

vars == <<trainVars, mainVars, buildVars>>

----------------------------------------------------------------------------
(* Bounds of the model *)

MaxEpochs == 3
MaxSmallBatches == 2
MaxOver == 1
LongEpochs == 4
MaxRows == 4
MaxIndexEpochs == 2

(* Program constants *)

InitialPatience == 10000
patience_increase == 2
improvement_threshold_num == 995
improvement_threshold_den == 1000
NumLayers == 6

(* Input values: validation losses and test scores (in thousandths), and the
   learning rates (in hundredths) of the default argument and of __main__. *)
Losses == {900, 998, 1000}
Scores == {5, 6}
Rates == {1, 5}

----------------------------------------------------------------------------
(* Floats: a finite non-negative number or numpy.inf *)

Fin(v) == [inf |-> FALSE, v |-> v]
numpy_inf == [inf |-> TRUE, v |-> 0]

\* a <= b in place of a < b
FloatLess_orEqual(a, b) == ~a.inf /\ (b.inf \/ a.v <= b.v)

\* a < b
FloatLess(a, b) == ~a.inf /\ (b.inf \/ a.v < b.v)

\* any improvement counts as significant
BelowThreshold_anyImprovement(a, b) == ~a.inf /\ (b.inf \/ a.v < b.v)

\* a < b * improvement_threshold
BelowThreshold(a, b) ==
    ~a.inf /\ (b.inf \/ a.v * improvement_threshold_den < b.v * improvement_threshold_num)

Min2(a, b) == IF a < b THEN a ELSE b
Max2(a, b) == IF a > b THEN a ELSE b

----------------------------------------------------------------------------
(* __main__: the command line *)

MaxArgs == 3

\* the command-line arguments tried, as sequences of characters
Arguments ==
    { <<"-", "n">>, <<"-", "p">>, <<"-", "n", "a">>, <<"-", "x">>,
      <<"-", "-", "n", "f", "i", "l", "e">>,
      <<"-", "-", "p", "f", "i", "l", "e", "=", "b">>,
      <<"-", "-", "n">>, <<"-", "-", "f">>, <<"-", "-">>,
      <<"a">>, <<"b">> }

\* getopt.getopt(argv, "n:p:", ["nfile=", "pfile="])
shortopts == <<"n", ":", "p", ":">>
longopts == << <<"n", "f", "i", "l", "e", "=">>, <<"p", "f", "i", "l", "e", "=">> >>

\* the defaults of __main__
defaultName == <<"activity13">>
defaultPath == <<"./">>

startswith(str, prefix) ==
    Len(prefix) <= Len(str) /\ SubSeq(str, 1, Len(prefix)) = prefix

Tail1(seq) == SubSeq(seq, 2, Len(seq))

GetoptError == [error |-> TRUE, opts |-> <<>>, args |-> <<>>]

\* getopt.short_has_arg: "error" for an unknown option character
short_has_arg(opt, shorts) ==
    LET found == {i \in 1 .. Len(shorts) : opt = shorts[i] /\ shorts[i] # ":"}
        first == CHOOSE i \in found : \A j \in found : i <= j
    IN  IF found = {} THEN "error"
        ELSE IF first + 1 <= Len(shorts) /\ shorts[first + 1] = ":" THEN "yes" ELSE "no"

\* getopt.do_shorts on the characters after "-"
RECURSIVE do_shorts(_, _, _, _)
do_shorts(optlist, optstring, shorts, args) ==
    IF optstring = <<>> THEN [error |-> FALSE, opts |-> optlist, args |-> args]
    ELSE LET opt == optstring[1]
             rest == Tail1(optstring)
             has == short_has_arg(opt, shorts)
         IN  IF has = "error" THEN GetoptError
             ELSE IF has = "yes"
             THEN IF rest = <<>>
                  THEN IF args = <<>> THEN GetoptError
                       ELSE [error |-> FALSE,
                             opts |-> Append(optlist, << <<"-", opt>>, args[1] >>),
                             args |-> Tail1(args)]
                  ELSE [error |-> FALSE,
                        opts |-> Append(optlist, << <<"-", opt>>, rest >>),
                        args |-> args]
             ELSE do_shorts(Append(optlist, << <<"-", opt>>, <<>> >>), rest, shorts, args)

\* getopt.long_has_args: [error, has_arg, opt]
long_has_args(opt, longs) ==
    LET possibilities == {i \in 1 .. Len(longs) : startswith(longs[i], opt)}
        unique == longs[CHOOSE i \in possibilities : TRUE]
    IN  IF possibilities = {} THEN [error |-> TRUE, has_arg |-> FALSE, opt |-> opt]
        ELSE IF \E i \in possibilities : longs[i] = opt
        THEN [error |-> FALSE, has_arg |-> FALSE, opt |-> opt]
        ELSE IF \E i \in possibilities : longs[i] = Append(opt, "=")
        THEN [error |-> FALSE, has_arg |-> TRUE, opt |-> opt]
        ELSE IF Cardinality(possibilities) > 1
        THEN [error |-> TRUE, has_arg |-> FALSE, opt |-> opt]
        ELSE IF unique[Len(unique)] = "="
        THEN [error |-> FALSE, has_arg |-> TRUE, opt |-> SubSeq(unique, 1, Len(unique) - 1)]
        ELSE [error |-> FALSE, has_arg |-> FALSE, opt |-> unique]

\* getopt.do_longs on the characters after "--"
do_longs(optlist, optstring, longs, args) ==
    LET eqs == {i \in 1 .. Len(optstring) : optstring[i] = "="}
        i == CHOOSE k \in eqs : \A j \in eqs : k <= j
        opt == IF eqs = {} THEN optstring ELSE SubSeq(optstring, 1, i - 1)
        given == eqs # {}
        optarg == IF given THEN SubSeq(optstring, i + 1, Len(optstring)) ELSE <<>>
        has == long_has_args(opt, longs)
    IN  IF has.error THEN GetoptError
        ELSE IF has.has_arg
        THEN IF ~given
             THEN IF args = <<>> THEN GetoptError
                  ELSE [error |-> FALSE,
                        opts |-> Append(optlist, << <<"-", "-">> \o has.opt, args[1] >>),
                        args |-> Tail1(args)]
             ELSE [error |-> FALSE,
                   opts |-> Append(optlist, << <<"-", "-">> \o has.opt, optarg >>),
                   args |-> args]
        ELSE IF given THEN GetoptError
        ELSE [error |-> FALSE,
              opts |-> Append(optlist, << <<"-", "-">> \o has.opt, <<>> >>),
              args |-> args]

\* getopt.getopt: options are read until the first argument that is not one
RECURSIVE getopt(_, _)
getopt(optlist, args) ==
    IF args # <<>> /\ startswith(args[1], <<"-">>) /\ args[1] # <<"-">>
    THEN IF args[1] = <<"-", "-">>
         THEN [error |-> FALSE, opts |-> optlist, args |-> Tail1(args)]
         ELSE LET r == IF startswith(args[1], <<"-", "-">>)
                       THEN do_longs(optlist, SubSeq(args[1], 3, Len(args[1])), longopts,
                                     Tail1(args))
                       ELSE do_shorts(optlist, Tail1(args[1]), shortopts, Tail1(args))
              IN  IF r.error THEN r ELSE getopt(r.opts, r.args)
    ELSE [error |-> FALSE, opts |-> optlist, args |-> args]

\* only the long options are recognised
SetOption_shortOnly(names, opt, arg) ==
    IF opt = <<"-", "n">> THEN <<arg, names[2]>>
    ELSE IF opt = <<"-", "p">> THEN <<names[1], arg>>
    ELSE names

\* the body of "for opt, arg in opts" on <<nameDataset, pathDataset>>
SetOption(names, opt, arg) ==
    IF opt \in {<<"-", "n">>, <<"-", "-", "n", "f", "i", "l", "e">>} THEN <<arg, names[2]>>
    ELSE IF opt \in {<<"-", "p">>, <<"-", "-", "p", "f", "i", "l", "e">>}
    THEN <<names[1], arg>>
    ELSE names

MainIdle ==
    /\ mainpc = "idle"
    /\ argv = <<>>
    /\ opts = <<>>
    /\ default = FALSE
    /\ optindex = 0
    /\ nameDataset = defaultName
    /\ pathDataset = defaultPath
    /\ output = <<>>
    /\ calls = <<>>

RECURSIVE ArgumentLists(_)
ArgumentLists(n) ==
    IF n = 0 THEN {<<>>}
    ELSE ArgumentLists(n - 1)
         \cup {Append(l, a) : l \in {x \in ArgumentLists(n - 1) : Len(x) = n - 1}, a \in Arguments}

\* lines 437-448: the defaults, then getopt in try/except
ParseOptions ==
    /\ mainpc = "start"
    /\ LET r == getopt(<<>>, argv)
       IN  IF r.error
           THEN /\ output' = Append(output, "usage")
                /\ default' = TRUE
                /\ opts' = <<>>
           ELSE /\ opts' = r.opts
                /\ UNCHANGED <<output, default>>
    /\ optindex' = 1
    /\ mainpc' = "options"
    /\ UNCHANGED <<argv, nameDataset, pathDataset, calls>>
    /\ UNCHANGED <<trainVars, buildVars>>

\* lines 452-457: one turn of "for opt, arg in opts"
ReadOption ==
    /\ mainpc = "options"
    /\ ~default
    /\ optindex <= Len(opts)
    /\ LET names == SetOption(<<nameDataset, pathDataset>>, opts[optindex][1], opts[optindex][2])
       IN  nameDataset' = names[1] /\ pathDataset' = names[2]
    /\ optindex' = optindex + 1
    /\ UNCHANGED <<mainpc, argv, opts, default, output, calls>>
    /\ UNCHANGED <<trainVars, buildVars>>

\* lines 462-464: print, then evaluate_lenet5(learning_rate, n_epochs, pathDataset, ...)
CallEvaluate ==
    /\ mainpc = "options"
    /\ default \/ optindex > Len(opts)
    /\ output' = Append(output, "Train for")
    /\ calls' = Append(calls, [learning_rate |-> 5, n_epochs |-> 100,
                               pathDataset |-> pathDataset, nameDataset |-> nameDataset,
                               nkerns |-> <<10, 50, 500>>, batch_size |-> 1])
    /\ mainpc' = "done"
    /\ UNCHANGED <<argv, opts, default, optindex, nameDataset, pathDataset>>
    /\ UNCHANGED <<trainVars, buildVars>>

----------------------------------------------------------------------------
(* LeNetConvPoolLayer and buildLayers.  A tensor is its shape and the least and
   greatest of its elements (in thousandths). *)

MaxBatchSize == 2
MaxDim == 2
MaxKerns == 2

None == [none |-> TRUE]

Tensor(shape, lo, hi) == [shape |-> shape, lo |-> lo, hi |-> hi]

\* the values a pretrained parameter holds: those of layer i, field f of object t
Pretrained(t, i, f) ==
    Tensor(<<t, i>>, 0 - (10 * t + i), 10 * t + i + (IF f = "W" THEN 0 ELSE 100))

\* the objects TT tried: None, or layers Layer0_param .. Layer5_param
PretrainedObjects ==
    {None} \cup {[none |-> FALSE,
                   Layer_param |-> [l \in 0 .. 5 |-> [W |-> Pretrained(t, l, "W"),
                                                       b |-> Pretrained(t, l, "b")]]]
                    : t \in 1 .. 2}

Product(seq, from) ==
    LET RECURSIVE P(_)
        P(i) == IF i > Len(seq) THEN 1 ELSE seq[i] * P(i + 1)
    IN  P(from)

\* numpy.sqrt, rounded down to a whole number (of thousandths)
Sqrt(x) ==
    LET RECURSIVE Between(_, _)
        Between(lo, hi) ==
            IF lo = hi THEN lo
            ELSE IF ((lo + hi + 1) \div 2) * ((lo + hi + 1) \div 2) <= x
                 THEN Between((lo + hi + 1) \div 2, hi)
                 ELSE Between(lo, ((lo + hi + 1) \div 2) - 1)
    IN  Between(0, IF x < 46340 THEN x ELSE 46340)

\* W_bound = sqrt(6 / (fan_in + fan_out)), in thousandths
W_bound(filter_shape, poolsize) ==
    LET fan_in == Product(filter_shape, 2)
        fan_out == (filter_shape[1] * Product(filter_shape, 3)) \div Product(poolsize, 1)
    IN  Sqrt(6000000 \div (fan_in + fan_out))

\* what numpy.asarray(value, dtype=floatX) keeps of a value that has this dtype
asarray(value) == Tensor(value.shape, value.lo, value.hi)

\* the least and greatest elements rng.uniform(low=-W_bound, high=W_bound) may draw
Draws(bound) == {<<lo, hi>> \in {0 - bound, 0, bound - 1} \X {0 - bound, 0, bound - 1} : lo <= hi}

\* self.W (lines 85-91)
InitialWeights(Wi, filter_shape, draw) ==
    IF Wi = None THEN Tensor(filter_shape, draw[1], draw[2]) ELSE asarray(Wi)

\* the supplied bias is never used
InitialBias_alwaysZeros(bi, filter_shape) == Tensor(<<filter_shape[1]>>, 0, 0)

\* self.b (lines 93-99)
InitialBias(bi, filter_shape) ==
    IF bi = None THEN Tensor(<<filter_shape[1]>>, 0, 0) ELSE asarray(bi)

\* conv.conv2d(input, filters, filter_shape, image_shape): a valid convolution
conv2d(input_shape, filter_shape) ==
    <<input_shape[1], filter_shape[1],
      input_shape[3] - filter_shape[3] + 1, input_shape[4] - filter_shape[4] + 1>>

\* downsample.max_pool_2d(input, ds, ignore_border=True)
max_pool_2d(input_shape, ds) ==
    <<input_shape[1], input_shape[2], input_shape[3] \div ds[1], input_shape[4] \div ds[2]>>

\* LeNetConvPoolLayer.__init__
LeNetConvPoolLayer(input_shape, filter_shape, image_shape, poolsize, Wi, bi, draw) ==
    [kind |-> "conv",
     asserted |-> image_shape[2] = filter_shape[2],
     input |-> input_shape,
     image_shape |-> image_shape,
     filter_shape |-> filter_shape,
     Wi |-> Wi,
     bi |-> bi,
     W |-> InitialWeights(Wi, filter_shape, draw),
     b |-> InitialBias(bi, filter_shape),
     output |-> max_pool_2d(conv2d(input_shape, filter_shape), poolsize)]

\* buildLayers: the Wi and bi handed to each layer (lines 125-150)
PassedParameters(tt) ==
    IF tt # None
    THEN [l \in 0 .. 5 |-> [W |-> tt.Layer_param[l].W, b |-> tt.Layer_param[l].b]]
    ELSE [l \in 0 .. 5 |-> [W |-> None, b |-> None]]

\* layer1 declared with the image of an unpadded 120 x 120 convolution
ConvArguments_wrongImage(l, bs, d, nk) ==
    CASE l = 0 -> [image_shape |-> <<bs, d, 128, 128>>, filter_shape |-> <<nk[1], d, 5, 5>>]
      [] l = 1 -> [image_shape |-> <<bs, nk[1], 60, 60>>, filter_shape |-> <<nk[2], nk[1], 5, 5>>]
      [] l = 2 -> [image_shape |-> <<bs, nk[2], 29, 29>>, filter_shape |-> <<nk[3], nk[2], 6, 6>>]

\* buildLayers: image_shape and filter_shape of layer0, layer1, layer2 (lines 152-168)
ConvArguments(l, bs, d, nk) ==
    CASE l = 0 -> [image_shape |-> <<bs, d, 128, 128>>, filter_shape |-> <<nk[1], d, 5, 5>>]
      [] l = 1 -> [image_shape |-> <<bs, nk[1], 62, 62>>, filter_shape |-> <<nk[2], nk[1], 5, 5>>]
      [] l = 2 -> [image_shape |-> <<bs, nk[2], 29, 29>>, filter_shape |-> <<nk[3], nk[2], 6, 6>>]

\* buildLayers: n_in and n_out of layer3, layer4, layer5 (lines 178-185)
HiddenArguments(l, nk) ==
    CASE l = 3 -> [n_in |-> nk[3] * 12 * 12, n_out |-> 1024]
      [] l = 4 -> [n_in |-> 1024, n_out |-> 2048]
      [] l = 5 -> [n_in |-> 2048, n_out |-> 51]

\* output.flatten(2)
flatten2(shape) == <<shape[1], Product(shape, 2)>>

BuildIdle ==
    /\ buildpc = "idle"
    /\ batch_size = 1
    /\ dim = 1
    /\ nkerns = <<1, 1, 1>>
    /\ TT = None
    /\ passed = PassedParameters(None)
    /\ flowing = <<>>
    /\ layers = <<>>

\* lines 125-150; layer0_input = x.reshape((batch_size, dim, 128, 128)) (line 279)
LoadParameters ==
    /\ buildpc = "start"
    /\ passed' = PassedParameters(TT)
    /\ flowing' = <<batch_size, dim, 128, 128>>
    /\ buildpc' = "conv"
    /\ UNCHANGED <<batch_size, dim, nkerns, TT, layers>>
    /\ UNCHANGED <<trainVars, mainVars>>

\* layer0, layer1, layer2 = LeNetConvPoolLayer(...)
BuildConvLayer ==
    /\ buildpc = "conv"
    /\ LET l == Len(layers)
           a == ConvArguments(l, batch_size, dim, nkerns)
       IN  \E draw \in Draws(W_bound(a.filter_shape, <<2, 2>>)) :
             LET new == LeNetConvPoolLayer(flowing, a.filter_shape, a.image_shape, <<2, 2>>,
                                           passed[l].W, passed[l].b, draw)
             IN  IF ~new.asserted
                 THEN buildpc' = "AssertionError" /\ UNCHANGED <<layers, flowing>>
                 ELSE /\ layers' = Append(layers, new)
                      /\ flowing' = IF l = 2 THEN flatten2(new.output) ELSE new.output
                      /\ buildpc' = IF l = 2 THEN "hidden" ELSE "conv"
    /\ UNCHANGED <<batch_size, dim, nkerns, TT, passed>>
    /\ UNCHANGED <<trainVars, mainVars>>

\* layer3, layer4, layer5 = HiddenLayer(rng, input, n_in, n_out, Wi, bi)
BuildHiddenLayer ==
    /\ buildpc = "hidden"
    /\ LET l == Len(layers)
           a == HiddenArguments(l, nkerns)
       IN  /\ layers' = Append(layers, [kind |-> "hidden", input |-> flowing,
                                         n_in |-> a.n_in, n_out |-> a.n_out,
                                         Wi |-> passed[l].W, bi |-> passed[l].b])
           /\ flowing' = <<flowing[1], a.n_out>>
           /\ buildpc' = IF l = 5 THEN "done" ELSE "hidden"
    /\ UNCHANGED <<batch_size, dim, nkerns, TT, passed>>
    /\ UNCHANGED <<trainVars, mainVars>>

----------------------------------------------------------------------------
(* The model parameters and train_model *)

LayerIds == 0 .. (NumLayers - 1)

\* params = layer5.params + layer4.params + ... + layer0.params, each [W, b]
params ==
    << <<5, "W">>, <<5, "b">>, <<4, "W">>, <<4, "b">>, <<3, "W">>, <<3, "b">>,
       <<2, "W">>, <<2, "b">>, <<1, "W">>, <<1, "b">>, <<0, "W">>, <<0, "b">> >>

\* grads = T.grad(cost, params) on minibatch index: grad(index, i) is the gradient of params[i]
grad(index, i) == ((i + index) % 3) - 1

\* the gradient step taken uphill
updates_ascent(lay, lr, index) ==
    [i \in 1 .. Len(params) |->
        <<params[i], lay[params[i][1]][params[i][2]] + lr * grad(index, i)>>]

\* updates: the list of (param_i, param_i - learning_rate * grad_i)
updates(lay, lr, index) ==
    [i \in 1 .. Len(params) |->
        <<params[i], lay[params[i][1]][params[i][2]] - lr * grad(index, i)>>]

\* where each shared variable stands in params
position == [key \in LayerIds \X {"W", "b"} |-> CHOOSE i \in 1 .. Len(params) : params[i] = key]

\* train_model(index): every update of the list is applied to its shared variable
train_model(lay, lr, index) ==
    [l \in LayerIds |->
        [W |-> updates(lay, lr, index)[position[<<l, "W">>]][2],
         b |-> updates(lay, lr, index)[position[<<l, "b">>]][2]]]

\* givens: the partition whose rows a compiled function slices
givens(function) ==
    CASE function = "train_model" -> "train_set"
      [] function = "validate_model" -> "valid_set"
      [] function = "test_model" -> "test_set"
      [] function = "model_prob" -> "test_set"
      [] function = "result" -> "test_set"

\* train_set_x / train_set_y, valid_set_x / valid_set_y, test_set_x / test_set_y
Partitions == {"train_set", "valid_set", "test_set"}

\* the compiled functions whose givens slice x, which line 279 reshapes to
\* (batch_size, dim, 128, 128); result slices y only
SlicesX == {"train_model", "validate_model", "test_model", "model_prob"}

\* the number of rows of set[index * batch_size : (index + 1) * batch_size]:
\* a slice stops at the end of the data
SliceRows(partition, index, size) ==
    Min2(partition, (index + 1) * size) - Min2(partition, index * size)

\* the call function(index) raises: x does not hold batch_size rows to reshape
Raises(function, index, partitions, size) ==
    /\ function \in SlicesX
    /\ SliceRows(partitions[givens(function)], index, size) # size

\* [function(i) for i in xrange(n)]
xrangeCalls(function, n) == {<<function, i>> : i \in 0 .. n - 1}

\* the layers dumped last to first
DumpLayers_reversed(lay) == [k \in 1 .. NumLayers |-> lay[NumLayers - k]]

\* cPickle.dump of layer0, ..., layer5 into the file opened with 'wb'
DumpLayers(lay) == [k \in 1 .. NumLayers |-> lay[k - 1]]

----------------------------------------------------------------------------
(* evaluate_lenet5 *)

InitialLayers == [l \in LayerIds |-> [W |-> l + 1, b |-> 0]]

TrainIdle ==
    /\ pc = "idle"
    /\ n_epochs = 0
    /\ n_train_batches = 0
    /\ learning_rate = 0
    /\ validation_frequency = 0
    /\ epoch = 0
    /\ done_looping = FALSE
    /\ minibatch_index = 0
    /\ iter = 0
    /\ patience = InitialPatience
    /\ best_validation_loss = numpy_inf
    /\ best_iter = 0
    /\ test_score = 0
    /\ this_validation_loss = numpy_inf
    /\ layer = InitialLayers
    /\ save_file = <<>>
    /\ trained = 0
    /\ validated = <<>>
    /\ tested = <<>>
    /\ writes = 0
    /\ reads = {}
    /\ rows = [p \in Partitions |-> 0]
    /\ n_valid_batches = 0
    /\ n_test_batches = 0
    /\ called = {}

\* the runs tried: short ones, and long ones whose epoch is as long as the cap of
\* validation_frequency (half the initial patience) or longer
Configurations ==
    ((0 .. MaxEpochs) \X (0 .. MaxSmallBatches) \X Rates)
    \cup ({LongEpochs} \X ((InitialPatience \div 2) .. (InitialPatience \div 2 + MaxOver)) \X {1})

Init ==
    /\ \E c \in Configurations :
        /\ n_epochs = c[1]
        /\ n_train_batches = c[2]
        /\ learning_rate = c[3]
    /\ pc = "while"
    /\ patience = InitialPatience
    /\ validation_frequency = Min2(n_train_batches, InitialPatience \div 2)
    /\ best_validation_loss = numpy_inf
    /\ best_iter = 0
    /\ test_score = 0
    /\ epoch = 0
    /\ done_looping = FALSE
    /\ minibatch_index = 0
    /\ iter = 0
    /\ this_validation_loss = numpy_inf
    /\ layer = InitialLayers
    /\ save_file = <<>>
    /\ trained = 0
    /\ validated = <<>>
    /\ tested = <<>>
    /\ writes = 0
    /\ reads = {}
    /\ called = {}
    /\ MainIdle
    /\ BuildIdle
    /\ rows = [train_set |-> n_train_batches * batch_size,
               valid_set |-> batch_size, test_set |-> 2 * batch_size]
    /\ n_valid_batches = rows.valid_set \div batch_size
    /\ n_test_batches = rows.test_set \div batch_size

\* while (epoch < n_epochs) and (not done_looping): epoch = epoch + 1
WhileEnter ==
    /\ pc = "while"
    /\ epoch < n_epochs /\ ~done_looping
    /\ epoch' = epoch + 1
    /\ minibatch_index' = 0
    /\ pc' = "for"
    /\ UNCHANGED <<n_epochs, n_train_batches, learning_rate, validation_frequency,
                   done_looping, iter, patience, best_validation_loss, best_iter,
                   test_score, this_validation_loss, layer, save_file, trained,
                   validated, tested, writes, reads,
                   rows, n_valid_batches, n_test_batches, called>>
    /\ UNCHANGED <<mainVars, buildVars>>

\* the loop ends: the final report is printed
WhileExit ==
    /\ pc = "while"
    /\ ~(epoch < n_epochs /\ ~done_looping)
    /\ pc' = "done"
    /\ UNCHANGED <<n_epochs, n_train_batches, learning_rate, validation_frequency,
                   epoch, done_looping, minibatch_index, iter, patience,
                   best_validation_loss, best_iter, test_score, this_validation_loss,
                   layer, save_file, trained, validated, tested, writes, reads,
                   rows, n_valid_batches, n_test_batches, called>>
    /\ UNCHANGED <<mainVars, buildVars>>

\* for minibatch_index in xrange(n_train_batches): exhausted
ForExit ==
    /\ pc = "for"
    /\ minibatch_index >= n_train_batches
    /\ pc' = "while"
    /\ UNCHANGED <<n_epochs, n_train_batches, learning_rate, validation_frequency,
                   epoch, done_looping, minibatch_index, iter, patience,
                   best_validation_loss, best_iter, test_score, this_validation_loss,
                   layer, save_file, trained, validated, tested, writes, reads,
                   rows, n_valid_batches, n_test_batches, called>>
    /\ UNCHANGED <<mainVars, buildVars>>

\* the check made on iter instead of iter + 1
ValidationDue_noPlusOne(it, freq) == it % freq = 0

\* if (iter + 1) % validation_frequency == 0
ValidationDue(it, freq) == (it + 1) % freq = 0

\* iter = ...; cost_ij = train_model(minibatch_index); is a validation due?
Train ==
    /\ pc = "for"
    /\ minibatch_index < n_train_batches
    /\ iter' = (epoch - 1) * n_train_batches + minibatch_index
    /\ layer' = train_model(layer, learning_rate, minibatch_index)
    /\ trained' = trained + 1
    /\ reads' = reads \cup {<<"train_model", givens("train_model")>>}
    /\ called' = {<<"train_model", minibatch_index>>}
    /\ pc' = IF ValidationDue(iter', validation_frequency) THEN "validate" ELSE "patience"
    /\ UNCHANGED <<n_epochs, n_train_batches, learning_rate, validation_frequency,
                   epoch, done_looping, minibatch_index, patience,
                   best_validation_loss, best_iter, test_score, this_validation_loss,
                   save_file, validated, tested, writes,
                   rows, n_valid_batches, n_test_batches>>
    /\ UNCHANGED <<mainVars, buildVars>>

\* validation_losses = [validate_model(i) ...]; this_validation_loss = numpy.mean(...)
Validate ==
    /\ pc = "validate"
    /\ \E loss \in Losses :
        /\ this_validation_loss' = Fin(loss)
        /\ validated' = Append(validated, [iter |-> iter, loss |-> Fin(loss), layer |-> layer])
    /\ reads' = reads \cup {<<"validate_model", givens("validate_model")>>}
    /\ called' = xrangeCalls("validate_model", n_valid_batches)
    /\ pc' = IF FloatLess(this_validation_loss', best_validation_loss)
             THEN "newbest" ELSE "patience"
    /\ UNCHANGED <<n_epochs, n_train_batches, learning_rate, validation_frequency,
                   epoch, done_looping, minibatch_index, iter, patience,
                   best_validation_loss, best_iter, test_score, layer, save_file,
                   trained, tested, writes,
                   rows, n_valid_batches, n_test_batches>>
    /\ UNCHANGED <<mainVars, buildVars>>

\* patience replaced instead of raised
NewPatience_noMax(pat, this, best, it) ==
    IF BelowThreshold(this, best) THEN it * patience_increase ELSE pat

\* patience after a new best (lines 379-381)
NewPatience(pat, this, best, it) ==
    IF BelowThreshold(this, best) THEN Max2(pat, it * patience_increase) ELSE pat

\* pred1 = ...model_prob(1)...; pred2 = ...result(1)...: the index is the
\* literal 1, and result(1) is called only if model_prob(1) returned
LiteralCalls(partitions, size) ==
    IF Raises("model_prob", 1, partitions, size)
    THEN {<<"model_prob", 1>>}
    ELSE {<<"model_prob", 1>>, <<"result", 1>>}

\* the body of "if this_validation_loss < best_validation_loss" (lines 376-414);
\* an exception raised by model_prob(1) ends evaluate_lenet5 there
NewBest ==
    /\ pc = "newbest"
    /\ patience' = NewPatience(patience, this_validation_loss, best_validation_loss, iter)
    /\ best_validation_loss' = this_validation_loss
    /\ best_iter' = iter
    /\ save_file' = DumpLayers(layer)
    /\ writes' = writes + 1
    /\ reads' = reads \cup {<<"model_prob", givens("model_prob")>>,
                            <<"test_model", givens("test_model")>>,
                            <<"result", givens("result")>>}
    /\ \E score \in Scores :
        /\ test_score' = score
        /\ tested' = Append(tested, [iter |-> iter, score |-> score])
    /\ called' = xrangeCalls("model_prob", n_test_batches)
                    \cup xrangeCalls("test_model", n_test_batches)
                    \cup LiteralCalls(rows, batch_size)
    /\ pc' = IF Raises("model_prob", 1, rows, batch_size) THEN "error" ELSE "patience"
    /\ UNCHANGED <<n_epochs, n_train_batches, learning_rate, validation_frequency,
                   epoch, done_looping, minibatch_index, iter, this_validation_loss,
                   layer, trained, validated,
                   rows, n_valid_batches, n_test_batches>>
    /\ UNCHANGED <<mainVars, buildVars>>

\* patience < iter in place of patience <= iter
EarlyStop_strict(pat, it) == pat < it

\* if patience <= iter: done_looping = True; break
EarlyStop(pat, it) == pat <= it

PatienceCheck ==
    /\ pc = "patience"
    /\ IF EarlyStop(patience, iter)
       THEN /\ done_looping' = TRUE
            /\ pc' = "while"
            /\ UNCHANGED minibatch_index
       ELSE /\ minibatch_index' = minibatch_index + 1
            /\ pc' = "for"
            /\ UNCHANGED done_looping
    /\ UNCHANGED <<n_epochs, n_train_batches, learning_rate, validation_frequency,
                   epoch, iter, patience, best_validation_loss, best_iter, test_score,
                   this_validation_loss, layer, save_file, trained, validated, tested, writes, reads,
                   rows, n_valid_batches, n_test_batches, called>>
    /\ UNCHANGED <<mainVars, buildVars>>

Next ==
    \/ WhileEnter
    \/ WhileExit
    \/ ForExit
    \/ Train
    \/ Validate
    \/ NewBest
    \/ PatienceCheck

Spec == Init /\ [][Next]_vars

(* evaluate_lenet5 on data of every small size: short runs, one for each
   choice of the number of rows of the three partitions and of batch_size.
   The validation and the test partition hold at least one minibatch, so
   that the mean of the losses is a number. *)

InitIndex ==
    /\ n_epochs \in 0 .. MaxIndexEpochs
    /\ learning_rate = 1
    /\ batch_size \in 1 .. MaxBatchSize
    /\ \E tr \in 0 .. MaxRows, va \in batch_size .. MaxRows, te \in batch_size .. MaxRows :
        rows = [train_set |-> tr, valid_set |-> va, test_set |-> te]
    /\ n_train_batches = rows.train_set \div batch_size
    /\ n_valid_batches = rows.valid_set \div batch_size
    /\ n_test_batches = rows.test_set \div batch_size
    /\ pc = "while"
    /\ patience = InitialPatience
    /\ validation_frequency = Min2(n_train_batches, InitialPatience \div 2)
    /\ best_validation_loss = numpy_inf
    /\ best_iter = 0
    /\ test_score = 0
    /\ epoch = 0
    /\ done_looping = FALSE
    /\ minibatch_index = 0
    /\ iter = 0
    /\ this_validation_loss = numpy_inf
    /\ layer = InitialLayers
    /\ save_file = <<>>
    /\ trained = 0
    /\ validated = <<>>
    /\ tested = <<>>
    /\ writes = 0
    /\ reads = {}
    /\ called = {}
    /\ MainIdle
    /\ buildpc = "idle"
    /\ dim = 1
    /\ nkerns = <<1, 1, 1>>
    /\ TT = None
    /\ passed = PassedParameters(None)
    /\ flowing = <<>>
    /\ layers = <<>>

SpecIndex == InitIndex /\ [][Next]_vars

(* __main__ on its own, one run for each command line *)

InitMain ==
    /\ argv \in ArgumentLists(MaxArgs)
    /\ mainpc = "start"
    /\ opts = <<>>
    /\ default = FALSE
    /\ optindex = 0
    /\ nameDataset = defaultName
    /\ pathDataset = defaultPath
    /\ output = <<>>
    /\ calls = <<>>
    /\ TrainIdle
    /\ BuildIdle

NextMain ==
    \/ ParseOptions
    \/ ReadOption
    \/ CallEvaluate

SpecMain == InitMain /\ [][NextMain]_vars

(* buildLayers on its own, one run for each choice of its arguments *)

InitBuild ==
    /\ batch_size \in 1 .. MaxBatchSize
    /\ dim \in 1 .. MaxDim
    /\ nkerns \in (1 .. MaxKerns) \X (1 .. MaxKerns) \X (1 .. MaxKerns)
    /\ TT \in PretrainedObjects
    /\ buildpc = "start"
    /\ passed = PassedParameters(None)
    /\ flowing = <<>>
    /\ layers = <<>>
    /\ TrainIdle
    /\ MainIdle

NextBuild ==
    \/ LoadParameters
    \/ BuildConvLayer
    \/ BuildHiddenLayer

SpecBuild == InitBuild /\ [][NextBuild]_vars

----------------------------------------------------------------------------
(* Properties of the training loop *)

\* A measure of the work left: every step of evaluate_lenet5 lowers it
Rank ==
    LET left == IF done_looping THEN 0 ELSE n_epochs - epoch
        perEpoch == 4 * n_train_batches + 2
        inFor == 2 + left * perEpoch + 4 * (n_train_batches - minibatch_index)
    IN  CASE pc = "done" -> 0
          [] pc = "while" -> 1 + left * perEpoch
          [] pc = "for" -> inFor
          [] pc = "validate" -> inFor - 1
          [] pc = "newbest" -> inFor - 2
          [] pc = "patience" -> inFor - 3

C1_Bounds ==
    /\ epoch <= n_epochs
    /\ trained <= n_epochs * n_train_batches
    /\ Rank >= 0
    /\ (pc # "done") => ENABLED Next
    /\ (pc = "done" /\ epoch < n_epochs) => done_looping
    /\ (pc = "done" /\ trained < n_epochs * n_train_batches) => done_looping
    /\ done_looping => (patience <= iter /\ trained = iter + 1)
    /\ (~done_looping /\ pc \in {"for", "while", "done"} /\ trained > 0) => patience > iter

\* C1: the training loop terminates (every step lowers a natural-number measure
\* and only the finished loop has no step), runs at most n_epochs epochs and at
\* most n_epochs * n_train_batches training steps, ends before n_epochs epochs
\* only with done_looping set, which is set right after the first training step
\* with patience <= iter, and no training step follows it.
C1_Terminates ==
    /\ []C1_Bounds
    /\ [][Rank' < Rank /\ (done_looping => trained' = trained)]_vars

C1_Witness == pc = "done" /\ done_looping /\ epoch < n_epochs /\ trained > 0

ValidatedIndex == 1 .. Len(validated)

\* the first validation that attained the lowest loss so far
FirstMinimum ==
    CHOOSE i \in ValidatedIndex :
        /\ \A j \in ValidatedIndex : validated[i].loss.v <= validated[j].loss.v
        /\ \A j \in 1 .. (i - 1) : validated[j].loss.v > validated[i].loss.v

C2_Exact ==
    (pc # "newbest") =>
        IF validated = <<>>
        THEN best_validation_loss.inf /\ best_iter = 0 /\ test_score = 0
        ELSE /\ ~best_validation_loss.inf
             /\ best_validation_loss.v = validated[FirstMinimum].loss.v
             /\ best_iter = validated[FirstMinimum].iter
             /\ \E k \in 1 .. Len(tested) :
                    /\ tested[k].iter = best_iter
                    /\ tested[k].score = test_score
                    /\ \A k2 \in 1 .. Len(tested) : tested[k2].iter = best_iter => k2 = k

\* C2: after every training step best_validation_loss is the minimum of the
\* validation losses computed so far (infinity if none), best_iter the iteration
\* of the first validation that attained it (0 if none) and test_score the test
\* score measured at that iteration (0 if none); best_validation_loss never
\* increases.
C2_BestModelTracking ==
    /\ []C2_Exact
    /\ [][\/ best_validation_loss.inf
          \/ (~best_validation_loss'.inf /\ best_validation_loss'.v <= best_validation_loss.v)]_vars

C2_Witness ==
    /\ pc = "done"
    /\ Len(validated) >= 3
    /\ best_iter = validated[2].iter
    /\ validated[3].loss.v = validated[2].loss.v

\* the six layers, layer0 first, as they were when validation i was made
LayersAtValidation(i) == [k \in 1 .. 6 |-> validated[i].layer[k - 1]]

\* C3 as stated: whenever no write is in progress the file holds the six layers
\* with the parameter values of iteration best_iter.
C3_Original ==
    (pc # "newbest") =>
        \E i \in ValidatedIndex :
            validated[i].iter = best_iter /\ save_file = LayersAtValidation(i)

C3_Holds ==
    (pc # "newbest") =>
        IF validated = <<>>
        THEN save_file = <<>> /\ writes = 0
        ELSE \E i \in ValidatedIndex :
                validated[i].iter = best_iter /\ save_file = LayersAtValidation(i)

C3_Step ==
    /\ (pc = "validate") =>
          ((pc' = "newbest") <=>
              (best_validation_loss.inf \/ this_validation_loss'.v < best_validation_loss.v))
    /\ (pc = "newbest") => (writes' = writes + 1 /\ pc' # "newbest")
    /\ (pc # "newbest") => (writes' = writes /\ save_file' = save_file)

\* C3 (amended): the file is rewritten exactly when a validation loss strictly
\* below best_validation_loss is found; once that has happened, whenever no write
\* is in progress it holds layer0..layer5 in this order with the parameter values
\* of iteration best_iter, and before that the run has not written it; steps that
\* produce no new best never change the file.
C3_Checkpoint == []C3_Holds /\ [][C3_Step]_vars

C3_Witness == pc = "done" /\ writes >= 2 /\ trained > best_iter + 1

ValidatedIters == {validated[i].iter : i \in ValidatedIndex}

\* the iterations of the last minibatch of every epoch trained to its end
EpochEnds == {e * n_train_batches - 1 : e \in 1 .. (trained \div n_train_batches)}

OncePerEpoch ==
    (pc # "validate") =>
        (ValidatedIters = EpochEnds /\ Len(validated) = Cardinality(EpochEnds))

\* C4 as stated: for every n_train_batches >= 1 the validation loss is evaluated
\* exactly once per completed epoch, after its last minibatch, and nowhere else.
C4_Original == (n_train_batches >= 1) => OncePerEpoch

\* C4 (amended): for every n_train_batches from 1 to 5000 (half the initial
\* patience, the cap of validation_frequency) the validation loss is evaluated
\* exactly once per completed epoch, after its last minibatch, and nowhere else.
C4_PeriodicValidation ==
    (n_train_batches >= 1 /\ n_train_batches <= 5000) => OncePerEpoch

C4_Witness == n_train_batches = 5000 /\ Len(validated) >= 2 /\ pc = "done"

C5_Static ==
    /\ Len(params) = 12
    /\ {params[i] : i \in 1 .. Len(params)} = (0 .. 5) \X {"W", "b"}
    /\ \A r \in reads : (r[1] = "train_model") => (r[2] = "train_set")

C5_Step ==
    /\ learning_rate' = learning_rate
    /\ IF trained' # trained
       THEN \A i \in 1 .. 12 :
               layer'[params[i][1]][params[i][2]] =
                   layer[params[i][1]][params[i][2]]
                       - learning_rate * grad(minibatch_index, i)
       ELSE layer' = layer

\* C5: each call of train_model replaces each of the 12 parameters, once, by
\* param - learning_rate * grad with a learning_rate that never changes, reading
\* the training set only; every other step (validate_model, test_model,
\* model_prob, result) leaves every parameter unchanged.
C5_GradientDescentOnly == []C5_Static /\ [][C5_Step]_vars

C5_Witness == pc = "done" /\ trained >= 2 /\ writes >= 1 /\ layer # InitialLayers

Significant ==
    best_validation_loss.inf \/ this_validation_loss.v * 1000 < best_validation_loss.v * 995

C9_Step ==
    /\ (pc = "validate") =>
          /\ patience' = patience
          /\ Significant' => pc' = "newbest"
          /\ (validated = <<>>) => Significant'
    /\ (pc = "newbest") =>
          patience' = IF Significant
                      THEN (IF 2 * iter > patience THEN 2 * iter ELSE patience)
                      ELSE patience
    /\ (pc \notin {"validate", "newbest"}) => patience' = patience

\* C9: at a validation at iteration iter, patience becomes max(patience, 2 * iter)
\* if the loss is below 0.995 times the previous best (always so at the first
\* validation) and is unchanged otherwise; no other step changes patience.
C9_PatienceExtension == [][C9_Step]_vars

C9_Witness ==
    /\ patience > 10000
    /\ patience = 2 * best_iter
    /\ Len(validated) >= 2
    /\ best_iter = validated[2].iter
    /\ validated[2].loss.v * 1000 < validated[1].loss.v * 995

\* C10: patience starts at 10000 and never decreases, so done_looping is never
\* set at an iteration below 10000: at least 10001 training steps precede it.
C10_InitialPatienceRespected ==
    /\ [](patience >= 10000 /\ (done_looping => (iter >= 10000 /\ trained >= 10001)))
    /\ [][patience' >= patience]_vars

C10_Witness == done_looping /\ iter = 10000 /\ Len(validated) = 2

----------------------------------------------------------------------------
(* Properties of buildLayers and LeNetConvPoolLayer *)

\* feature maps and image side after k convolution+pooling layers
Maps(k) == IF k = 0 THEN dim ELSE nkerns[k]
Side(k) == CASE k = 0 -> 128 [] k = 1 -> 62 [] k = 2 -> 29 [] k = 3 -> 12

\* C6: for every batch_size, dim and nkerns the assertion of LeNetConvPoolLayer
\* holds for layer0..layer2, the image_shape declared for each of them is the
\* shape of the tensor it receives (128x128 -> 62x62 -> 29x29 -> 12x12 under a
\* valid convolution and 2x2 pooling without borders, feature maps dim ->
\* nkerns[0] -> nkerns[1] -> nkerns[2]), and the n_in of each fully-connected
\* layer is the number of outputs of the layer before it
\* (nkerns[2]*12*12 -> 1024 -> 2048 -> 51).
C6_ShapesConsistent ==
    /\ buildpc # "AssertionError"
    /\ \A k \in 1 .. Len(layers) :
        IF k <= 3
        THEN /\ layers[k].asserted
             /\ layers[k].image_shape = layers[k].input
             /\ layers[k].image_shape = <<batch_size, Maps(k - 1), Side(k - 1), Side(k - 1)>>
             /\ layers[k].output = <<batch_size, Maps(k), Side(k), Side(k)>>
        ELSE /\ layers[k].n_in = layers[k].input[2]
             /\ layers[k].n_in =
                   IF k = 4
                   THEN layers[3].output[2] * layers[3].output[3] * layers[3].output[4]
                   ELSE layers[k - 1].n_out
             /\ (k = 4) => layers[k].n_in = nkerns[3] * 12 * 12 /\ layers[k].n_out = 1024
             /\ (k = 5) => layers[k].n_in = 1024 /\ layers[k].n_out = 2048
             /\ (k = 6) => layers[k].n_in = 2048 /\ layers[k].n_out = 51

C6_Witness ==
    buildpc = "done" /\ Len(layers) = 6 /\ batch_size = 2 /\ dim = 2 /\ nkerns = <<1, 2, 1>>

\* what TT holds for layer l, or None
Supplied(l, f) == IF TT = None THEN None ELSE TT.Layer_param[l][f]

\* W and b of a convolution layer, from what it was given
FallbackOnly(lay) ==
    LET bound == W_bound(lay.filter_shape, <<2, 2>>)
    IN  /\ IF lay.Wi = None
           THEN /\ lay.W.shape = lay.filter_shape
                /\ 0 - bound <= lay.W.lo /\ lay.W.lo <= lay.W.hi /\ lay.W.hi <= bound
           ELSE lay.W = lay.Wi
        /\ IF lay.bi = None
           THEN lay.b = [shape |-> <<lay.filter_shape[1]>>, lo |-> 0, hi |-> 0]
           ELSE lay.b = lay.bi

\* C7: LeNetConvPoolLayer sets W to Wi when Wi is given and draws it within
\* [-W_bound, W_bound] with shape filter_shape when Wi is None, and on its own
\* sets b to bi when bi is given and to zeros of length filter_shape[0] when bi is
\* None; buildLayers hands layer i the W and b of TT.Layer<i>_param for all six
\* layers when TT is given and None for all twelve when TT is None.
C7_RandomOnlyFallback ==
    /\ (buildpc \notin {"idle", "start"}) =>
          \A l \in 0 .. 5 : passed[l] = [W |-> Supplied(l, "W"), b |-> Supplied(l, "b")]
    /\ \A k \in 1 .. Len(layers) :
          /\ layers[k].Wi = Supplied(k - 1, "W")
          /\ layers[k].bi = Supplied(k - 1, "b")
          /\ (k <= 3) => FallbackOnly(layers[k])
    /\ (buildpc = "start") =>
        \A Wi \in {None, Pretrained(1, 0, "W")}, bi \in {None, Pretrained(1, 0, "b")} :
          \A draw \in Draws(W_bound(<<nkerns[1], dim, 5, 5>>, <<2, 2>>)) :
              FallbackOnly(LeNetConvPoolLayer(<<batch_size, dim, 128, 128>>,
                                              <<nkerns[1], dim, 5, 5>>,
                                              <<batch_size, dim, 128, 128>>,
                                              <<2, 2>>, Wi, bi, draw))

C7_Witness ==
    /\ buildpc = "done"
    /\ TT # None
    /\ layers[3].b = TT.Layer_param[2].b
    /\ layers[3].b.hi # 0

----------------------------------------------------------------------------
(* Properties of __main__ *)

NameOptions == {<<"-", "n">>, <<"-", "-", "n", "f", "i", "l", "e">>}
PathOptions == {<<"-", "p">>, <<"-", "-", "p", "f", "i", "l", "e">>}

\* the value of the last of the options `names` in optlist, or the default
LastValue(optlist, names, dflt) ==
    LET hits == {i \in 1 .. Len(optlist) : optlist[i][1] \in names}
    IN  IF hits = {} THEN dflt
        ELSE optlist[CHOOSE i \in hits : \A j \in hits : j <= i][2]

\* a command line made of one option and its value
OnePair == Len(argv) = 2 /\ argv[1] \in NameOptions \cup PathOptions

\* C8: -n/--nfile sets nameDataset and -p/--pfile sets pathDataset, the last
\* occurrence winning; an option not given keeps its default; when getopt raises
\* GetoptError the usage message is printed and both keep their defaults; in
\* every case evaluate_lenet5 is started exactly once, with these two values.
C8_CommandLine ==
    /\ (mainpc # "done") => calls = <<>>
    /\ (mainpc = "done") =>
          /\ Len(calls) = 1
          /\ calls[1].nameDataset = nameDataset
          /\ calls[1].pathDataset = pathDataset
          /\ IF getopt(<<>>, argv).error
             THEN /\ default
                  /\ output = <<"usage", "Train for">>
                  /\ nameDataset = <<"activity13">>
                  /\ pathDataset = <<"./">>
             ELSE /\ ~default
                  /\ output = <<"Train for">>
                  /\ nameDataset = LastValue(getopt(<<>>, argv).opts, NameOptions, <<"activity13">>)
                  /\ pathDataset = LastValue(getopt(<<>>, argv).opts, PathOptions, <<"./">>)
          /\ OnePair =>
                /\ nameDataset = IF argv[1] \in NameOptions THEN argv[2] ELSE <<"activity13">>
                /\ pathDataset = IF argv[1] \in PathOptions THEN argv[2] ELSE <<"./">>

C8_Witness ==
    /\ mainpc = "done"
    /\ Len(opts) = 2
    /\ opts[1][1] \in NameOptions /\ opts[2][1] \in NameOptions
    /\ opts[1][2] # opts[2][2]
    /\ nameDataset = opts[2][2]
    /\ pathDataset = <<"./">>

----------------------------------------------------------------------------
(* Properties of the minibatch indices *)

\* the index of the call c = <<function, index>> is one of the whole
\* minibatches of the partition the function slices
InRange(c) ==
    /\ 0 <= c[2]
    /\ c[2] < rows[givens(c[1])] \div batch_size

\* the slice the call c takes holds batch_size existing rows
FullSlice(c) == SliceRows(rows[givens(c[1])], c[2], batch_size) = batch_size

\* the calls whose index is the loop variable of an xrange
LoopCalls ==
    xrangeCalls("train_model", n_train_batches)
        \cup xrangeCalls("validate_model", n_valid_batches)
        \cup xrangeCalls("test_model", n_test_batches)
        \cup xrangeCalls("model_prob", n_test_batches)

\* C11: every minibatch index passed to train_model, validate_model,
\* test_model, model_prob or result is in range for the partition the function
\* slices, 0 <= i < rows div batch_size, so that its slice holds exactly
\* batch_size existing rows; the calls model_prob(1) and result(1) included.
C11_IndicesInRange == \A c \in called : InRange(c) /\ FullSlice(c)

\* what the code does keep: the indices drawn from an xrange are in range, the
\* literal index 1 is in range exactly when the test partition holds two
\* minibatches, and evaluate_lenet5 ends with an exception exactly when it
\* does not
C11_LoopIndicesInRange ==
    /\ \A c \in called \cap LoopCalls : InRange(c) /\ FullSlice(c)
    /\ \A c \in called \ LoopCalls : c[2] = 1 /\ (InRange(c) <=> n_test_batches >= 2)
    /\ (pc = "error") <=> (<<"model_prob", 1>> \in called /\ n_test_batches < 2)
    /\ (<<"result", 1>> \in called) => n_test_batches >= 2

\* a new best was found while the test partition holds a single minibatch
C11_LiteralOutOfRange ==
    /\ pc = "error"
    /\ n_test_batches = 1
    /\ <<"model_prob", 1>> \in called
    /\ <<"model_prob", 0>> \in called
    /\ SliceRows(rows.test_set, 1, batch_size) < batch_size

====
